---------------------------- MODULE Spec2Model ----------------------------
(***************************************************************************)
(* AuditFlow AI backend (src/main.py, src/schemas.py): workflow template   *)
(* generation, step status updates and the predictive risk tracker.        *)
(*                                                                         *)
(* Python strings whose content is inspected (client_type, fiscal_year)    *)
(* are sequences of one-character strings.  A Python value that may be     *)
(* None is a tagged record: None, or Str(s).  Instants are whole days.     *)
(* An optional field that is absent from a stored document (updated_at) is *)
(* the empty sequence, and <<t>> when it is set to t.                      *)
(***************************************************************************)
EXTENDS Integers, Sequences, FiniteSets, TLC

VARIABLES
    clients,     \* db.client: sequence of client documents, _id = index
    documents,   \* db.document: for each client _id, how many documents carry it
    workflows,   \* db.workflow: sequence of workflow documents, _id = index
    now,         \* datetime.utcnow(), in whole days
    call,        \* per worker thread: the update_step_status request in flight
    resp,        \* the response sent by the step just taken (NoResponse if none)
    served,      \* POST and PATCH requests accepted so far
    b_client,    \* build_workflow_for_client: the client dict passed in
    b_result     \* build_workflow_for_client: what the call produced

vars == <<clients, documents, workflows, now, call, resp, served, b_client, b_result>>

-----------------------------------------------------------------------------
(* Bounds of the model *)

MaxLen == 4          \* longest client_type string enumerated for the builder
MaxRequests == 4     \* POST and PATCH requests in one behaviour of the service
MaxRiskRequests == 1 \* POST and PATCH requests in one behaviour of the tracker
MaxDocs == 6         \* documents one client has in db.document
TickDays == 7        \* days the clock advances in one step
MaxTime == 14        \* last day the clock reaches

\* The worker threads that serve requests (FastAPI runs a def endpoint in a
\* thread pool, so two update_step_status requests may overlap).
Workers == {"w1", "w2"}

-----------------------------------------------------------------------------
(* Python values *)

None == [t |-> "none", v |-> <<>>]
Str(s) == [t |-> "str", v |-> s]

\* bool(x) for x a str or None
Truthy(x) == x.t = "str" /\ x.v # <<>>

\* x or y
Or(x, y) == IF Truthy(x) THEN x ELSE y

\* dict.get(key) and dict.get(key, default)
Get(d, key) == IF key \in DOMAIN d THEN d[key] ELSE None
GetDefault(d, key, default) == IF key \in DOMAIN d THEN d[key] ELSE default

\* str.lower() on one character
LowerChar(c) ==
    CASE c = "G" -> "g"
      [] c = "S" -> "s"
      [] c = "T" -> "t"
      [] c = "F" -> "f"
      [] c = "Y" -> "y"
      [] c = "I" -> "i"
      [] c = "R" -> "r"
      [] OTHER -> c

\* str.lower()
Lower(s) == [i \in 1..Len(s) |-> LowerChar(s[i])]

\* needle in haystack (substring test)
Contains(haystack, needle) ==
    \E i \in 0..(Len(haystack) - Len(needle)) :
        \A j \in 1..Len(needle) : haystack[i + j] = needle[j]

-----------------------------------------------------------------------------
(* schemas.py *)

\* WorkflowStep(...): a step document; status defaults to "todo", the optional
\* fields default to None / [] and a fresh step carries no updated_at.
WorkflowStep(key, title, category, required_documents, description, dependencies, due_date) ==
    [ key |-> key,
      title |-> title,
      description |-> description,
      category |-> category,
      required_documents |-> required_documents,
      assigned_to |-> None,
      due_date |-> due_date,
      status |-> "todo",
      dependencies |-> dependencies,
      updated_at |-> <<>> ]

\* Workflow(...): pydantic validates the fields; client_type: str rejects None,
\* fiscal_year: Optional[str] accepts it.  The result is the model, or the
\* ValidationError the constructor raises.
Workflow(client_id, client_type, fiscal_year, version, steps) ==
    IF client_type.t # "str"
    THEN [ raised |-> "ValidationError", value |-> <<>> ]
    ELSE [ raised |-> "",
           value |-> << [ client_id |-> client_id,
                          client_type |-> client_type,
                          fiscal_year |-> fiscal_year,
                          version |-> version,
                          steps |-> steps ] >> ]

-----------------------------------------------------------------------------
(* main.py: Dynamic Workflow Mapping *)

\* The GST steps with every offset counted from today instead of base_due
gst_workflow_template_from_today(client, utcnow) ==
    LET fy == Or(Get(client, "fiscal_year"), Str(<<"Current FY">>))
        today == utcnow
        base_due == today + 14
    IN << WorkflowStep("collect_gstr", "Collect GSTR-1, GSTR-3B, GSTR-2B",
                       "documents", <<"GSTR-1", "GSTR-3B", "GSTR-2B">>,
                       Str(<<"Collect GST returns for ">> \o fy.v),
                       <<>>, base_due),
          WorkflowStep("reconcile_ledgers",
                       "Reconcile sales/purchase ledgers with GST",
                       "verification", <<"Sales Ledger", "Purchase Ledger">>,
                       None, <<"collect_gstr">>, today + 7),
          WorkflowStep("variance_analysis", "Variance and anomaly analysis",
                       "analysis", <<>>, None, <<"reconcile_ledgers">>,
                       today + 12),
          WorkflowStep("draft_report", "Draft GST Audit Report",
                       "reporting", <<>>, None, <<"variance_analysis">>,
                       today + 18),
          WorkflowStep("partner_signoff", "Partner Sign-off",
                       "signoff", <<>>, None, <<"draft_report">>,
                       today + 20) >>

gst_workflow_template(client, utcnow) ==
    LET fy == Or(Get(client, "fiscal_year"), Str(<<"Current FY">>))
        today == utcnow
        base_due == today + 14
    IN << WorkflowStep("collect_gstr", "Collect GSTR-1, GSTR-3B, GSTR-2B",
                       "documents", <<"GSTR-1", "GSTR-3B", "GSTR-2B">>,
                       Str(<<"Collect GST returns for ">> \o fy.v),
                       <<>>, base_due),
          WorkflowStep("reconcile_ledgers",
                       "Reconcile sales/purchase ledgers with GST",
                       "verification", <<"Sales Ledger", "Purchase Ledger">>,
                       None, <<"collect_gstr">>, base_due + 7),
          WorkflowStep("variance_analysis", "Variance and anomaly analysis",
                       "analysis", <<>>, None, <<"reconcile_ledgers">>,
                       base_due + 12),
          WorkflowStep("draft_report", "Draft GST Audit Report",
                       "reporting", <<>>, None, <<"variance_analysis">>,
                       base_due + 18),
          WorkflowStep("partner_signoff", "Partner Sign-off",
                       "signoff", <<>>, None, <<"draft_report">>,
                       base_due + 20) >>

\* The generic steps with fieldwork depending on the step after it
generic_workflow_template_backward(client, utcnow) ==
    LET today == utcnow
    IN << WorkflowStep("kickoff", "Engagement kickoff & document request",
                       "documents", <<>>, None, <<>>, today + 7),
          WorkflowStep("fieldwork", "Fieldwork and tests",
                       "analysis", <<>>, None, <<"draft">>, today + 14),
          WorkflowStep("draft", "Draft report",
                       "reporting", <<>>, None, <<"fieldwork">>, today + 20),
          WorkflowStep("signoff", "Final sign-off",
                       "signoff", <<>>, None, <<"draft">>, today + 22) >>

generic_workflow_template(client, utcnow) ==
    LET today == utcnow
    IN << WorkflowStep("kickoff", "Engagement kickoff & document request",
                       "documents", <<>>, None, <<>>, today + 7),
          WorkflowStep("fieldwork", "Fieldwork and tests",
                       "analysis", <<>>, None, <<"kickoff">>, today + 14),
          WorkflowStep("draft", "Draft report",
                       "reporting", <<>>, None, <<"fieldwork">>, today + 20),
          WorkflowStep("signoff", "Final sign-off",
                       "signoff", <<>>, None, <<"draft">>, today + 22) >>

\* Line 184 without .lower(): the match is case-sensitive
IsGstType_CaseSensitive(client) ==
    LET ctype == Or(Get(client, "client_type"), Str(<<>>)).v
    IN Contains(ctype, <<"g", "s", "t">>)

\* The template family chosen on line 185: "gst" in ctype
IsGstType(client) ==
    LET ctype == Lower(Or(Get(client, "client_type"), Str(<<>>)).v)
    IN Contains(ctype, <<"g", "s", "t">>)

build_workflow_for_client(client, utcnow) ==
    LET steps == IF IsGstType(client)
                 THEN gst_workflow_template(client, utcnow)
                 ELSE generic_workflow_template(client, utcnow)
    IN Workflow(client["_id"],
                GetDefault(client, "client_type", Str(<<>>)),
                Get(client, "fiscal_year"),
                "v1",
                steps)

-----------------------------------------------------------------------------
(* Persistence (database.py, pymongo) *)

\* An id string is the number of the ObjectId it spells; 0 is a string that
\* spells no ObjectId.  oid(id_str) raises HTTPException(400) on the latter.
oid_raises(id_str) == id_str = 0

\* collection.find_one({"_id": id}): the document, or nothing
find_one(collection, id) ==
    IF id \in 1..Len(collection) THEN <<collection[id]>> ELSE <<>>

\* create_document(name, data): inserts the model's fields under a fresh _id
create_document(collection, data) ==
    Append(collection, [_id |-> Len(collection) + 1] @@ data)

\* collection.update_one({"_id": id}, {"$set": {"steps": steps}})
update_one_set_steps(collection, id, steps) ==
    [collection EXCEPT ![id].steps = steps]

-----------------------------------------------------------------------------
(* The values requests carry *)

ClientRequests ==
    { [ client_type |-> <<"G", "S", "T">>, fiscal_year |-> Str(<<"F", "Y">>) ],
      [ client_type |-> <<"I", "T", "R">>, fiscal_year |-> None ] }
StepKeys == { "collect_gstr", "kickoff", "fieldwork", "nonexistent_key" }
Statuses == { "in_progress", "done", "archived" }

\* The id strings a caller sends: the ids it was given, one that names no
\* document, and one that is malformed.
IdStrings(collection) == 0..(Len(collection) + 1)

\* A worker's frame of update_step_status: where it is ("idle", or "write" when
\* line 238 is next), its arguments and its local wf["steps"].  A worker that
\* is idle keeps the arguments of the last request it answered {"ok": True}.
Idle == [ pc |-> "idle", workflow_id |-> 0, step_key |-> "", status |-> "",
          steps |-> <<>> ]

NoResponse == [ op |-> "", status_code |-> 0, detail |-> "", items |-> <<>> ]

\* HTTPException(status_code, detail) raised by endpoint op
HTTPException(op, status_code, detail) ==
    [ op |-> op, status_code |-> status_code, detail |-> detail, items |-> <<>> ]

\* A 200 response of endpoint op with payload items
Ok(op, items) ==
    [ op |-> op, status_code |-> 200, detail |-> "", items |-> items ]

Init ==
    /\ clients = <<>>
    /\ documents = <<>>
    /\ workflows = <<>>
    /\ now = 0
    /\ call = [w \in Workers |-> Idle]
    /\ resp = NoResponse
    /\ served = 0
    /\ b_client = [_id |-> 0]
    /\ b_result = <<>>

-----------------------------------------------------------------------------
(* main.py: Clients, Documents *)

\* POST /api/clients: the Client schema requires client_type to be a str;
\* fiscal_year is optional and stored as None when not given.  db.document is
\* kept as the number of documents carrying each client's id, which is all
\* that any reader of it uses.
create_client(req) ==
    /\ served' = served + 1
    /\ clients' = create_document(clients, [ client_type |-> Str(req.client_type),
                                             fiscal_year |-> req.fiscal_year ])
    /\ documents' = Append(documents, 0)
    /\ resp' = Ok("create_client", <<Len(clients) + 1>>)
    /\ UNCHANGED <<workflows, now, call, b_client, b_result>>

\* POST /api/documents
add_document(client_id) ==
    /\ served' = served + 1
    /\ documents[client_id] < MaxDocs
    /\ documents' = [documents EXCEPT ![client_id] = @ + 1]
    /\ resp' = Ok("add_document", <<>>)
    /\ UNCHANGED <<clients, workflows, now, call, b_client, b_result>>

\* Time passes.
Tick ==
    /\ now + TickDays <= MaxTime
    /\ now' = now + TickDays
    /\ resp' = NoResponse
    /\ UNCHANGED <<clients, documents, workflows, call, served, b_client, b_result>>

-----------------------------------------------------------------------------
(* main.py: POST /api/workflows/generate *)

generate_workflow(client_id) ==
    /\ served' = served + 1
    /\ UNCHANGED <<clients, documents, now, call, b_client, b_result>>
    /\ IF oid_raises(client_id)
       THEN /\ resp' = HTTPException("generate_workflow", 400, "Invalid id")
            /\ UNCHANGED workflows
       ELSE LET client == find_one(clients, client_id)
            IN IF client = <<>>
               THEN /\ resp' = HTTPException("generate_workflow", 404, "Client not found")
                    /\ UNCHANGED workflows
               ELSE LET wf == build_workflow_for_client(client[1], now)
                    IN IF wf.raised # ""
                       THEN /\ resp' = HTTPException("generate_workflow", 500, wf.raised)
                            /\ UNCHANGED workflows
                       ELSE /\ workflows' = create_document(workflows, wf.value[1])
                            /\ resp' = Ok("generate_workflow", <<Len(workflows) + 1>>)

-----------------------------------------------------------------------------
(* main.py: PATCH /api/workflows/{workflow_id}/steps/{step_key} *)

\* The loop with updated = True set whether or not a step matched
SetStepStatus_AlwaysUpdated(steps, step_key, status, utcnow) ==
    LET hits == { i \in 1..Len(steps) : steps[i].key = step_key }
    IN IF hits = {}
       THEN [ updated |-> TRUE, steps |-> steps ]
       ELSE LET i == CHOOSE h \in hits : \A g \in hits : h <= g
            IN [ updated |-> TRUE,
                 steps |-> [steps EXCEPT ![i].status = status,
                                         ![i].updated_at = <<utcnow>>] ]

\* The loop writing the time into due_date as well as updated_at
SetStepStatus_TouchesDue(steps, step_key, status, utcnow) ==
    LET hits == { i \in 1..Len(steps) : steps[i].key = step_key }
    IN IF hits = {}
       THEN [ updated |-> FALSE, steps |-> steps ]
       ELSE LET i == CHOOSE h \in hits : \A g \in hits : h <= g
            IN [ updated |-> TRUE,
                 steps |-> [steps EXCEPT ![i].status = status,
                                         ![i].due_date = utcnow,
                                         ![i].updated_at = <<utcnow>>] ]

\* Lines 228-234: the loop over wf["steps"] that sets status and updated_at on
\* the first step whose key is step_key, and reports whether it found one.
SetStepStatus(steps, step_key, status, utcnow) ==
    LET hits == { i \in 1..Len(steps) : steps[i].key = step_key }
    IN IF hits = {}
       THEN [ updated |-> FALSE, steps |-> steps ]
       ELSE LET i == CHOOSE h \in hits : \A g \in hits : h <= g
            IN [ updated |-> TRUE,
                 steps |-> [steps EXCEPT ![i].status = status,
                                         ![i].updated_at = <<utcnow>>] ]

\* Lines 223-236: find_one, then the loop on the worker's own copy of the
\* document.  Nothing is written yet.
update_step_status_read(w, workflow_id, step_key, status) ==
    /\ call[w].pc = "idle"
    /\ served' = served + 1
    /\ UNCHANGED <<clients, documents, workflows, now, b_client, b_result>>
    /\ IF oid_raises(workflow_id)
       THEN /\ resp' = HTTPException("update_step_status", 400, "Invalid id")
            /\ UNCHANGED call
       ELSE LET wf == find_one(workflows, workflow_id)
            IN IF wf = <<>>
               THEN /\ resp' = HTTPException("update_step_status", 404, "Workflow not found")
                    /\ UNCHANGED call
               ELSE LET r == SetStepStatus(wf[1].steps, step_key, status, now)
                    IN IF ~r.updated
                       THEN /\ resp' = HTTPException("update_step_status", 404, "Step not found")
                            /\ UNCHANGED call
                       ELSE /\ resp' = NoResponse
                            /\ call' = [call EXCEPT ![w] =
                                          [ pc |-> "write",
                                            workflow_id |-> workflow_id,
                                            step_key |-> step_key,
                                            status |-> status,
                                            steps |-> r.steps ]]

\* Lines 238-239: update_one replaces the stored steps array by the worker's
\* copy, and the request is answered {"ok": True}.
update_step_status_write(w) ==
    /\ call[w].pc = "write"
    /\ workflows' = update_one_set_steps(workflows, call[w].workflow_id, call[w].steps)
    /\ call' = [call EXCEPT ![w].pc = "idle", ![w].steps = <<>>]
    /\ resp' = Ok("update_step_status", <<>>)
    /\ UNCHANGED <<clients, documents, now, served, b_client, b_result>>

-----------------------------------------------------------------------------
(* main.py: GET /api/predictive/clients *)

\* The inner loop counting a step as overdue on its due date already
RECURSIVE OverdueSteps_Inclusive(_, _, _, _)
OverdueSteps_Inclusive(steps, i, utcnow, overdue) ==
    IF i > Len(steps) THEN overdue
    ELSE LET due == steps[i].due_date
             status == steps[i].status
         IN OverdueSteps_Inclusive(steps, i + 1, utcnow,
                IF due <= utcnow /\ status # "done" THEN overdue + 15 ELSE overdue)

\* Lines 339-343: the inner loop, adding 15 for each overdue step not done
RECURSIVE OverdueSteps(_, _, _, _)
OverdueSteps(steps, i, utcnow, overdue) ==
    IF i > Len(steps) THEN overdue
    ELSE LET due == steps[i].due_date
             status == steps[i].status
         IN OverdueSteps(steps, i + 1, utcnow,
                IF due < utcnow /\ status # "done" THEN overdue + 15 ELSE overdue)

\* Lines 335, 338: the outer loop over the workflows whose client_id is cid
RECURSIVE OverdueWorkflows(_, _, _, _, _)
OverdueWorkflows(wfs, n, cid, utcnow, overdue) ==
    IF n > Len(wfs) THEN overdue
    ELSE OverdueWorkflows(wfs, n + 1, cid, utcnow,
            IF wfs[n].client_id = cid
            THEN OverdueSteps(wfs[n].steps, 1, utcnow, overdue)
            ELSE overdue)

Max(a, b) == IF a >= b THEN a ELSE b
Min(a, b) == IF a <= b THEN a ELSE b

\* Lines 345-349
RiskLevel(score) ==
    IF score >= 85 THEN "high" ELSE IF score >= 70 THEN "medium" ELSE "low"

\* Lines 333-356: one entry of the response
ClientRisk(c) ==
    LET cid == c["_id"]
        n_docs == documents[cid]
        n_wfs == Cardinality({ n \in 1..Len(workflows) : workflows[n].client_id = cid })
        missing_docs_penalty == Max(0, 5 - n_docs) * 10
        overdue == OverdueWorkflows(workflows, 1, cid, now, 0)
        score == Min(100, 50 + missing_docs_penalty + overdue)
    IN [ client |-> cid,
         risk_score |-> score,
         risk_level |-> RiskLevel(score),
         documents |-> n_docs,
         open_workflows |-> n_wfs ]

predictive_clients ==
    /\ resp' = Ok("predictive_clients",
                  [n \in 1..Len(clients) |-> ClientRisk(clients[n])])
    /\ UNCHANGED <<clients, documents, workflows, now, call, served, b_client, b_result>>

-----------------------------------------------------------------------------
(* The service *)

\* The requests of one behaviour.  A behaviour accepts at most limit POST and
\* PATCH requests; a request already accepted runs to its end, the tracker may
\* be read at any time, and time passes freely.
Serve(limit) ==
    \/ served < limit /\ \E req \in ClientRequests : create_client(req)
    \/ served < limit /\ \E c \in 1..Len(clients) : add_document(c)
    \/ served < limit /\ \E c \in IdStrings(clients) : generate_workflow(c)
    \/ served < limit /\ \E w \in Workers, id \in IdStrings(workflows),
                             k \in StepKeys, s \in Statuses :
                              update_step_status_read(w, id, k, s)
    \/ \E w \in Workers : update_step_status_write(w)
    \/ predictive_clients
    \/ Tick

Next == Serve(MaxRequests)

Spec == Init /\ [][Next]_vars

-----------------------------------------------------------------------------
(* The predictive tracker over a populated database *)

\* db.workflow after generate_workflow was served, on day 0, for each client
\* of owners in turn
RECURSIVE Generated(_, _)
Generated(cs, owners) ==
    IF owners = <<>> THEN <<>>
    ELSE LET n == Len(owners)
             before == Generated(cs, SubSeq(owners, 1, n - 1))
         IN create_document(before, build_workflow_for_client(cs[owners[n]], 0).value[1])

RiskClients ==
    << [ _id |-> 1, client_type |-> Str(<<"G", "S", "T">>),
         fiscal_year |-> Str(<<"F", "Y">>) ],
       [ _id |-> 2, client_type |-> Str(<<"I", "T", "R">>), fiscal_year |-> None ] >>

RiskNoDocs == <<0, 0>>

RiskOwners == { <<>>, <<1>>, <<2>>, <<2, 1>>, <<2, 2>> }

\* The database as earlier requests left it on day 0: one client of each
\* request kind, the documents on file of one of them, and the workflows
\* generated so far.
InitRisk ==
    /\ clients = RiskClients
    /\ \E c \in 1..2, n \in 0..MaxDocs : documents = [RiskNoDocs EXCEPT ![c] = n]
    /\ \E owners \in RiskOwners : workflows = Generated(RiskClients, owners)
    /\ now = 0
    /\ call = [w \in Workers |-> Idle]
    /\ resp = NoResponse
    /\ served = 0
    /\ b_client = [_id |-> 0]
    /\ b_result = <<>>

\* The requests that read or change what the tracker reads
NextRisk ==
    \/ served < MaxRiskRequests /\ \E c \in IdStrings(clients) : generate_workflow(c)
    \/ served < MaxRiskRequests /\ \E w \in Workers, id \in IdStrings(workflows),
                                       k \in StepKeys, s \in Statuses :
                                        update_step_status_read(w, id, k, s)
    \/ \E w \in Workers : update_step_status_write(w)
    \/ predictive_clients
    \/ Tick

SpecRisk == InitRisk /\ [][NextRisk]_vars

-----------------------------------------------------------------------------
(* build_workflow_for_client over client dicts of any shape *)

Alphabet == { "g", "s", "t", "G", "S", "T", "x" }

\* The strings over Alphabet of length at most n
RECURSIVE StringsUpTo(_)
StringsUpTo(n) ==
    IF n = 0 THEN { <<>> }
    ELSE LET shorter == StringsUpTo(n - 1)
         IN shorter \cup { Append(s, c) : s \in { t \in shorter : Len(t) = n - 1 },
                                          c \in Alphabet }

\* A field of a client dict: the key is absent, or holds None, or holds a str
Absent == [t |-> "absent", v |-> <<>>]

\* The dict with _id and the fields that are not Absent
ClientDict(client_type, fiscal_year) ==
    LET present == { k \in {"client_type", "fiscal_year"} :
                       (IF k = "client_type" THEN client_type ELSE fiscal_year) # Absent }
    IN [ k \in present \cup {"_id"} |->
           IF k = "_id" THEN 1
           ELSE IF k = "client_type" THEN client_type ELSE fiscal_year ]

InitBuild ==
    /\ \E ct \in {Absent, None} \cup { Str(s) : s \in StringsUpTo(MaxLen) },
          fy \in {Absent, None, Str(<<>>), Str(<<"F", "Y">>)} :
           b_client = ClientDict(ct, fy)
    /\ b_result = <<>>
    /\ now \in {0, MaxTime}
    /\ clients = <<>>
    /\ documents = <<>>
    /\ workflows = <<>>
    /\ call = [w \in Workers |-> Idle]
    /\ resp = NoResponse
    /\ served = 0

\* The call build_workflow_for_client(b_client)
Build ==
    /\ b_result = <<>>
    /\ b_result' = << build_workflow_for_client(b_client, now) >>
    /\ UNCHANGED <<clients, documents, workflows, now, call, resp, served, b_client>>

NextBuild == Build

SpecBuild == InitBuild /\ [][NextBuild]_vars

-----------------------------------------------------------------------------
(* Properties of the builder *)

GstKeys == << "collect_gstr", "reconcile_ledgers", "variance_analysis",
              "draft_report", "partner_signoff" >>
GenericKeys == << "kickoff", "fieldwork", "draft", "signoff" >>

Keys(steps) == [i \in 1..Len(steps) |-> steps[i].key]

\* s spells g, s, t in a row, in either case
SpellsGst(s) ==
    \E i \in 1..(Len(s) - 2) :
        /\ s[i] \in {"g", "G"}
        /\ s[i + 1] \in {"s", "S"}
        /\ s[i + 2] \in {"t", "T"}

\* The text of a client's client_type; empty when the key is absent or None
ClientTypeText(client) ==
    IF "client_type" \in DOMAIN client /\ client["client_type"].t = "str"
    THEN client["client_type"].v
    ELSE <<>>

FieldMissing(client, key) == key \notin DOMAIN client \/ client[key] = None

C9_BuildIsTotal ==
    b_result # <<>>
    => /\ b_result[1].raised = ""
       /\ LET wf == b_result[1].value[1]
          IN /\ ClientTypeText(b_client) = <<>> => Keys(wf.steps) = GenericKeys
             /\ FieldMissing(b_client, "fiscal_year") => wf.fiscal_year = None
             /\ (Keys(wf.steps) = GstKeys
                   /\ (FieldMissing(b_client, "fiscal_year")
                         \/ b_client["fiscal_year"] = Str(<<>>)))
                => wf.steps[1].description
                     = Str(<<"Collect GST returns for ", "Current FY">>)

-----------------------------------------------------------------------------
(* Properties of the stored workflows *)

StoredWorkflows == 1..Len(workflows)

\* The index of the step with the given key (keys are unique in a workflow)
IndexOf(steps, key) == CHOOSE i \in 1..Len(steps) : steps[i].key = key

HasKey(steps, key) == \E i \in 1..Len(steps) : steps[i].key = key

\* A step, or a workflow, with the fields update-step may change blanked
Framed(step) == [step EXCEPT !.status = "", !.updated_at = <<>>]
Header(wf) == [wf EXCEPT !.steps = <<>>]

\* C2: the write of a successful update-step changes only the status and
\* updated_at of the step it names: the other steps, the number, order and
\* keys of the steps, the workflow's other fields and every other workflow
\* are as they were stored before it.
C2_UpdateFrame ==
    [][ \A w \in Workers :
          update_step_status_write(w)
          => LET id == call[w].workflow_id
                 k == call[w].step_key
                 old == workflows[id].steps
                 new == workflows'[id].steps
             IN /\ Len(workflows') = Len(workflows)
                /\ \A n \in StoredWorkflows : n # id => workflows'[n] = workflows[n]
                /\ Header(workflows'[id]) = Header(workflows[id])
                /\ Keys(new) = Keys(old)
                /\ \A i \in 1..Len(old) :
                      IF old[i].key = k
                      THEN Framed(new[i]) = Framed(old[i])
                      ELSE new[i] = old[i] ]_vars

\* C3: a failure writes nothing.  update-step with a key no step has answers
\* "Step not found", with an id no workflow has "Workflow not found", and
\* generate-workflow with an id no client has "Client not found"; these and
\* every other error response leave the three collections as they were and
\* leave no write pending.
C3_FailuresWriteNothing ==
    [][ /\ (served' # served /\ resp'.op \in {"", "update_step_status"})
           => /\ \A id \in IdStrings(workflows), k \in StepKeys :
                   (id \in StoredWorkflows /\ ~HasKey(workflows[id].steps, k))
                   => \A w \in Workers, s \in Statuses :
                         update_step_status_read(w, id, k, s)
                         => resp' = HTTPException("update_step_status", 404,
                                                  "Step not found")
              /\ \A id \in IdStrings(workflows) :
                   (id # 0 /\ id \notin StoredWorkflows)
                   => \A w \in Workers, k \in StepKeys, s \in Statuses :
                         update_step_status_read(w, id, k, s)
                         => resp' = HTTPException("update_step_status", 404,
                                                  "Workflow not found")
        /\ (served' # served /\ resp'.op = "generate_workflow")
           => \A c \in IdStrings(clients) :
                 (c # 0 /\ c \notin 1..Len(clients) /\ generate_workflow(c))
                 => resp' = HTTPException("generate_workflow", 404,
                                          "Client not found")
        /\ (resp' # resp /\ resp'.status_code \in {400, 404, 500})
           => UNCHANGED <<clients, documents, workflows, call>> ]_vars

\* C3 witness: "Step not found" was answered for a stored workflow
C3_Witness ==
    /\ resp = HTTPException("update_step_status", 404, "Step not found")
    /\ Len(workflows) >= 1

\* C4: when an update-step completes on a workflow where the other worker's
\* completed update of a different step is in place, both new statuses are
\* stored afterwards: no update loses a sibling step's status.
C4_NoLostUpdate ==
    [][ \A v \in Workers, w \in Workers :
          ( /\ update_step_status_write(v)
            /\ w # v
            /\ call[w].pc = "idle"
            /\ call[w].workflow_id = call[v].workflow_id
            /\ call[w].step_key \notin {"", call[v].step_key}
            /\ LET old == workflows[call[v].workflow_id].steps
               IN old[IndexOf(old, call[w].step_key)].status = call[w].status )
          => LET new == workflows'[call[v].workflow_id].steps
             IN /\ new[IndexOf(new, call[w].step_key)].status = call[w].status
                /\ new[IndexOf(new, call[v].step_key)].status = call[v].status ]_vars

\* C5: in every stored workflow, every key in a step's dependencies is the key
\* of an earlier step of the same list.
C5_DependenciesPrecede ==
    \A n \in StoredWorkflows :
       LET steps == workflows[n].steps
       IN \A i \in 1..Len(steps) :
             \A d \in 1..Len(steps[i].dependencies) :
                \E j \in 1..(i - 1) : steps[j].key = steps[i].dependencies[d]

\* C5 witness: a step that has a dependency has had its status updated
C5_Witness ==
    \E n \in StoredWorkflows :
       \E i \in 1..Len(workflows[n].steps) :
          /\ workflows[n].steps[i].dependencies # <<>>
          /\ workflows[n].steps[i].status # "todo"

GstOffsets == << 14, 21, 26, 32, 34 >>
GenericOffsets == << 7, 14, 20, 22 >>

Dues(wf) == [i \in 1..Len(wf.steps) |-> wf.steps[i].due_date]

NonDecreasing(seq) == \A i \in 1..(Len(seq) - 1) : seq[i] <= seq[i + 1]

\* C6: a workflow generated on day T has the due dates T+14, T+21, T+26, T+32,
\* T+34 (GST) or T+7, T+14, T+20, T+22 (generic), in list order; they are
\* non-decreasing, and no later step changes them.
C6_DueDates ==
    [][ /\ Len(workflows') >= Len(workflows)
        /\ \A n \in StoredWorkflows : Dues(workflows'[n]) = Dues(workflows[n])
        /\ \A n \in 1..Len(workflows') :
              /\ NonDecreasing(Dues(workflows'[n]))
              /\ n \notin StoredWorkflows
                 => LET wf == workflows'[n]
                        offsets == IF SpellsGst(wf.client_type.v)
                                   THEN GstOffsets ELSE GenericOffsets
                    IN Dues(wf) = [i \in 1..Len(offsets) |-> now + offsets[i]] ]_vars

\* C6 witness: a GST workflow generated after day 0 has had a step updated
C6_Witness ==
    \E n \in StoredWorkflows :
       /\ Keys(workflows[n].steps) = GstKeys
       /\ workflows[n].steps[1].due_date > 14
       /\ \E i \in 1..Len(workflows[n].steps) : workflows[n].steps[i].status # "todo"

\* C7: when update-step(k, s) is applied to a workflow whose step k already
\* has status s, and it read the other steps as they are stored, the steps
\* array after it equals the one before it except for step k's updated_at.
C7_Idempotent ==
    [][ \A w \in Workers :
          update_step_status_write(w)
          => LET id == call[w].workflow_id
                 old == workflows[id].steps
                 new == workflows'[id].steps
                 i == IndexOf(old, call[w].step_key)
             IN ( /\ old[i].status = call[w].status
                  /\ \A j \in 1..Len(old) : j # i => call[w].steps[j] = old[j] )
                => new = [old EXCEPT ![i].updated_at = new[i].updated_at] ]_vars

\* C7 witness: both workers have applied the same update-step, the later one
\* on a later day
C7_Witness ==
    /\ call["w1"].pc = "idle" /\ call["w2"].pc = "idle"
    /\ call["w1"].step_key # ""
    /\ call["w1"] = call["w2"]
    /\ LET steps == workflows[call["w1"].workflow_id].steps
           i == IndexOf(steps, call["w1"].step_key)
       IN /\ steps[i].status = call["w1"].status
          /\ steps[i].updated_at # <<0>>
    /\ resp = Ok("update_step_status", <<>>)

StatusEnum == { "todo", "in_progress", "blocked", "done" }

\* C10: every stored step's status is one of todo, in_progress, blocked, done,
\* whatever status arguments update-step was given.
C10_StatusInEnum ==
    \A n \in StoredWorkflows :
       \A i \in 1..Len(workflows[n].steps) : workflows[n].steps[i].status \in StatusEnum

-----------------------------------------------------------------------------
(* Properties of the tracker *)

\* The steps of client cid's workflows that are past due and not done
OverdueOpen(cid) ==
    { p \in UNION { { <<m, i>> : i \in 1..Len(workflows[m].steps) } : m \in StoredWorkflows } :
        /\ workflows[p[1]].client_id = cid
        /\ workflows[p[1]].steps[p[2]].due_date < now
        /\ workflows[p[1]].steps[p[2]].status # "done" }

\* C8: the tracker reports, for each client, min(100, 50 + max(0, 5 - docs) * 10
\* + 15 * N) with N the number of that client's steps past due and not done,
\* and the level high from 85, medium from 70, low below; a step that
\* update-step set to "done" is not among the N.
C8_RiskScore ==
    resp.op = "predictive_clients"
    => /\ Len(resp.items) = Len(clients)
       /\ \A n \in 1..Len(clients) :
            LET e == resp.items[n]
                docs == documents[n]
                raw == 50 + (IF docs < 5 THEN 5 - docs ELSE 0) * 10
                          + 15 * Cardinality(OverdueOpen(clients[n]["_id"]))
            IN /\ e.risk_score = (IF raw > 100 THEN 100 ELSE raw)
               /\ e.risk_score <= 100
               /\ e.risk_level = (IF e.risk_score >= 85 THEN "high"
                                  ELSE IF e.risk_score >= 70 THEN "medium" ELSE "low")

\* C8 witness: a client with 2 documents and two overdue steps, one of which
\* update-step has set to "done" after its due date, is reported at 95, high
C8_Witness ==
    /\ resp.op = "predictive_clients"
    /\ \E n \in 1..Len(clients) :
          /\ documents[n] = 2
          /\ resp.items[n].risk_score = 95
          /\ resp.items[n].risk_level = "high"
          /\ \E m \in StoredWorkflows :
                /\ workflows[m].client_id = n
                /\ \E i \in 1..Len(workflows[m].steps) :
                      /\ workflows[m].steps[i].status = "done"
                      /\ workflows[m].steps[i].updated_at # <<>>
                      /\ workflows[m].steps[i].due_date
                           < workflows[m].steps[i].updated_at[1]

=============================================================================
